---- MODULE Spec2Model ----
(***************************************************************************)
(* Model of the BadgerDB buffer manager BufMgr (src/buffer.cpp).           *)
(* Every public call is one atomic action (the manager is single-threaded);*)
(* a handler is computed as a chain of steps over a record holding the     *)
(* manager's fields, the file contents and the file-layer calls made.      *)
(* Misspelt identifiers of the source (clockhhand, hashtable, FrameIf) are *)
(* read as the members they stand for.  BufDesc, BufHashTbl, File and Page *)
(* are not part of src/buffer.cpp and follow sections 3, 4 and 6 of the    *)
(* specification.                                                          *)
(***************************************************************************)
EXTENDS Integers, Sequences, FiniteSets, TLC

\* ---- bounds -------------------------------------------------------------
NumBufs == 2      \* bufs, the constructor argument
NumFiles == 1     \* distinct File handles used by the client
MaxPage == 2      \* page numbers of a file are 0..MaxPage
MaxVal == 1       \* page contents are 0..MaxVal
MaxPin == 2       \* cap on pinCnt
MaxFault == 2     \* the file layer may fail at its k-th call, k <= MaxFault
MaxCalls == 5     \* number of calls made on one manager
MaxClientCalls == 8  \* the same, for a client that only reads and unpins

Frames == 0 .. (NumBufs - 1)
Files == 1 .. NumFiles
PageIds == 0 .. MaxPage
Values == 0 .. MaxVal
Keys == Files \X PageIds

NoFile == 0                 \* the NULL File pointer of a cleared descriptor
NotFound == 0 - 1           \* directory lookup miss
Absent == 0 - 1             \* a page number the file does not hold
NoFrame == 0 - 1            \* no page reference returned

VARIABLES bufDescTable, bufPool, hashTable, clockHand, frameNum,
          disk, alive, lastCall, ioErrSeen, rt, calls, pins, script

vars == <<bufDescTable, bufPool, hashTable, clockHand, frameNum,
          disk, alive, lastCall, ioErrSeen, rt, calls, pins, script>>

\* ---- descriptor helpers (BufDesc) ---------------------------------------
Set(d, file, pageNo) ==
    [d EXCEPT !.valid = TRUE, !.file = file, !.pageNo = pageNo,
              !.pinCnt = 1, !.refbit = TRUE, !.dirty = FALSE]

Clear(d) ==
    [d EXCEPT !.valid = FALSE, !.file = NoFile,
              !.pinCnt = 0, !.refbit = FALSE, !.dirty = FALSE]

\* the test pinCnt > 0 of flushFile and disposePage
PinnedNever(d) == FALSE

Pinned(d) == d.pinCnt > 0

Throw(s, e) == [s EXCEPT !.exc = e]

\* ---- file layer (File) ---------------------------------------------------
IOFails(s) == Len(s.log) + 1 = s.faultAt

Holds(s, file, n) ==
    file \in Files /\ n \in PageIds /\ s.disk[file][n] # Absent

Logged(s, call, file, n, frame, ok) ==
    [s EXCEPT !.log = Append(@, [call |-> call, file |-> file, pageNo |-> n,
                                 frame |-> frame, ok |-> ok])]

\* File::readPage(n): fails if the page is absent or unreadable
FileReadPage(s, file, n) ==
    LET ok == ~IOFails(s) /\ Holds(s, file, n)
        s1 == Logged(s, "readPage", file, n, NoFrame, ok)
    IN  IF ok THEN s1 ELSE Throw(s1, "IOError")

PageOf(s, file, n) == [pageNo |-> n, data |-> s.disk[file][n]]

\* File::writePage(page): persists the page by its embedded page number;
\* frame is the frame whose payload is handed over (recorded in the log only)
FileWritePage(s, file, page, frame) ==
    LET ok == ~IOFails(s) /\ Holds(s, file, page.pageNo)
        s1 == Logged(s, "writePage", file, page.pageNo, frame, ok)
    IN  IF ok THEN [s1 EXCEPT !.disk[file][page.pageNo] = page.data]
        ELSE Throw(s1, "IOError")

\* File::allocatePage(): a page number the file does not hold yet, blank
FileAllocatePage(s, file, n) ==
    LET ok == ~IOFails(s)
        s1 == Logged(s, "allocatePage", file, n, NoFrame, ok)
    IN  IF ok THEN [s1 EXCEPT !.disk[file][n] = 0]
        ELSE Throw(s1, "IOError")

\* File::deletePage(n): removes the page from the file
FileDeletePage(s, file, n) ==
    LET ok == ~IOFails(s)
        s1 == Logged(s, "deletePage", file, n, NoFrame, ok)
    IN  IF ok THEN [s1 EXCEPT !.disk[file][n] = Absent]
        ELSE Throw(s1, "IOError")

\* ---- frame directory (BufHashTbl) ---------------------------------------
HashLookup(s, file, pageNo) ==
    IF <<file, pageNo>> \in Keys THEN s.ht[<<file, pageNo>>] ELSE NotFound

HashInsert(s, file, pageNo, frameNo) ==
    IF HashLookup(s, file, pageNo) # NotFound
    THEN Throw(s, "HashAlreadyPresent")
    ELSE [s EXCEPT !.ht[<<file, pageNo>>] = frameNo]

HashRemove(s, file, pageNo) ==
    IF HashLookup(s, file, pageNo) = NotFound
    THEN Throw(s, "HashNotFound")
    ELSE [s EXCEPT !.ht[<<file, pageNo>>] = NotFound]

\* ---- BufMgr ---------------------------------------------------------------
advanceClock(s) ==
    [s EXCEPT !.hand = (s.hand + 1) % NumBufs, !.ticks = @ + 1]

\* the if-chain of allocBuf over the frame under the hand
InspectRefbitFirst(d) ==
    IF d.valid
    THEN IF d.refbit THEN "warm"
         ELSE IF d.pinCnt > 0 THEN "pinned"
         ELSE "cold"
    ELSE "empty"

\* the reference bit is not consulted
InspectNoSecondChance(d) ==
    IF d.valid
    THEN IF d.pinCnt > 0 THEN "pinned" ELSE "cold"
    ELSE "empty"

Inspect(d) ==
    IF d.valid
    THEN IF d.pinCnt > 0 THEN "pinned"
         ELSE IF d.refbit THEN "warm"
         ELSE "cold"
    ELSE "empty"

\* the test that ends the scan with BufferExceeded
ExceededLate(current) == current = 3 * NumBufs

Exceeded(current) == current = NumBufs

\* the directory entry is removed and the descriptor cleared before the write
evictRemoveFirst(s, h) ==
    LET d == s.desc[h]
        s1 == HashRemove(s, d.file, d.pageNo)
        s2 == [s1 EXCEPT !.desc[h] = Clear(@)]
        s3 == IF d.dirty
              THEN FileWritePage(s2, d.file, s.pool[h], h)
              ELSE s2
    IN  IF s1.exc # "none" THEN s1
        ELSE IF s3.exc # "none" THEN s3
        ELSE [s3 EXCEPT !.fnum = h]

\* the frame under the hand is chosen as the victim
evict(s, h) ==
    LET d == s.desc[h]
        s1 == IF d.dirty
              THEN FileWritePage(s, d.file, s.pool[h], h)
              ELSE s
        s2 == HashRemove(s1, d.file, d.pageNo)
    IN  IF s1.exc # "none" THEN s1
        ELSE IF s2.exc # "none" THEN s2
        ELSE [s2 EXCEPT !.desc[h] = Clear(@), !.fnum = h]

RECURSIVE allocBufLoop(_, _)
allocBufLoop(s0, current) ==
    LET s == advanceClock(s0)
        h == s.hand
        d == s.desc[h]
        st == Inspect(d)
    IN  IF st = "pinned"
        THEN IF Exceeded(current + 1)
             THEN Throw(s, "BufferExceeded")
             ELSE allocBufLoop(s, current + 1)
        ELSE IF st = "warm"
        THEN allocBufLoop([s EXCEPT !.desc[h].refbit = FALSE], current)
        ELSE IF st = "cold"
        THEN evict(s, h)
        ELSE [s EXCEPT !.desc[h] = Set(@, d.file, d.pageNo), !.fnum = h]

allocBuf(s) == allocBufLoop(s, 0)

\* the hit path initialises the descriptor as for a page just loaded
readPageHitSet(s, f) ==
    [s EXCEPT !.fnum = f, !.hit = TRUE,
              !.desc[f] = Set(@, @.file, @.pageNo),
              !.ret = f]

\* the hit path moves the clock hand on
readPageHitAdvance(s, f) ==
    advanceClock([s EXCEPT !.fnum = f, !.hit = TRUE,
                           !.desc[f].refbit = TRUE,
                           !.desc[f].pinCnt = @ + 1,
                           !.ret = f])

\* the page is in the pool, in frame f
readPageHit(s, f) ==
    [s EXCEPT !.fnum = f, !.hit = TRUE,
              !.desc[f].refbit = TRUE,
              !.desc[f].pinCnt = @ + 1,
              !.ret = f]

readPage(s, file, pageNo) ==
    IF HashLookup(s, file, pageNo) # NotFound
    THEN readPageHit(s, HashLookup(s, file, pageNo))
    ELSE LET s1 == allocBuf(s)
             s2 == FileReadPage(s1, file, s1.fnum)
             s3 == [s2 EXCEPT !.pool[s2.fnum] = PageOf(s2, file, s2.fnum)]
             s4 == HashInsert(s3, file, pageNo, s3.fnum)
         IN  IF s1.exc # "none" THEN s1
             ELSE IF s2.exc # "none" THEN s2
             ELSE IF s4.exc # "none" THEN s4
             ELSE [s4 EXCEPT !.desc[s4.fnum] = Set(@, file, pageNo),
                             !.ret = s4.fnum]

\* the dirty bit is set before the pinCnt test
unPinPageDirtyFirst(s, file, pageNo, dirty) ==
    LET f == HashLookup(s, file, pageNo)
        exceptionFlag == f # NotFound
        s1 == IF exceptionFlag THEN [s EXCEPT !.fnum = f, !.hit = TRUE] ELSE s
        s2 == IF dirty /\ exceptionFlag
              THEN [s1 EXCEPT !.desc[s1.fnum].dirty = TRUE] ELSE s1
    IN  IF exceptionFlag /\ s2.desc[s2.fnum].pinCnt = 0
        THEN Throw(s2, "PageNotPinned")
        ELSE IF exceptionFlag /\ s2.desc[s2.fnum].pinCnt > 0
        THEN [s2 EXCEPT !.desc[s2.fnum].pinCnt = @ - 1]
        ELSE s2

\* the dirty bit is assigned the argument
unPinPageAssignDirty(s, file, pageNo, dirty) ==
    LET f == HashLookup(s, file, pageNo)
        exceptionFlag == f # NotFound
        s1 == IF exceptionFlag THEN [s EXCEPT !.fnum = f, !.hit = TRUE] ELSE s
        s2 == IF exceptionFlag
              THEN [s1 EXCEPT !.desc[s1.fnum].dirty = dirty] ELSE s1
    IN  IF exceptionFlag /\ s1.desc[s1.fnum].pinCnt = 0
        THEN Throw(s1, "PageNotPinned")
        ELSE IF exceptionFlag /\ s2.desc[s2.fnum].pinCnt > 0
        THEN [s2 EXCEPT !.desc[s2.fnum].pinCnt = @ - 1]
        ELSE s2

\* the result of the lookup is not consulted: the frame last used is unpinned
unPinPageStale(s, file, pageNo, dirty) ==
    LET f == HashLookup(s, file, pageNo)
        s1 == IF f # NotFound THEN [s EXCEPT !.fnum = f, !.hit = TRUE] ELSE s
        s2 == IF dirty
              THEN [s1 EXCEPT !.desc[s1.fnum].dirty = TRUE] ELSE s1
    IN  IF s1.desc[s1.fnum].pinCnt = 0
        THEN Throw(s1, "PageNotPinned")
        ELSE [s2 EXCEPT !.desc[s2.fnum].pinCnt = @ - 1]

unPinPage(s, file, pageNo, dirty) ==
    LET f == HashLookup(s, file, pageNo)
        exceptionFlag == f # NotFound
        s1 == IF exceptionFlag THEN [s EXCEPT !.fnum = f, !.hit = TRUE] ELSE s
        s2 == IF dirty /\ exceptionFlag
              THEN [s1 EXCEPT !.desc[s1.fnum].dirty = TRUE] ELSE s1
    IN  IF exceptionFlag /\ s1.desc[s1.fnum].pinCnt = 0
        THEN Throw(s1, "PageNotPinned")
        ELSE IF exceptionFlag /\ s2.desc[s2.fnum].pinCnt > 0
        THEN [s2 EXCEPT !.desc[s2.fnum].pinCnt = @ - 1]
        ELSE s2

RECURSIVE flushFileLoop(_, _, _)
flushFileLoop(s, file, i) ==
    IF i = NumBufs THEN s
    ELSE IF s.desc[i].file # file THEN flushFileLoop(s, file, i + 1)
    ELSE LET d == s.desc[i]
             s1 == IF d.dirty
                   THEN LET w == FileWritePage(s, d.file, s.pool[i], i)
                        IN  IF w.exc # "none" THEN w
                            ELSE [w EXCEPT !.desc[i].dirty = FALSE]
                   ELSE s
             s2 == HashRemove(s1, d.file, d.pageNo)
         IN  IF s1.exc # "none" THEN s1
             ELSE IF Pinned(d) THEN Throw(s1, "PagePinned")
             ELSE IF ~d.valid THEN Throw(s1, "BadBuffer")
             ELSE IF s2.exc # "none" THEN s2
             ELSE flushFileLoop([s2 EXCEPT !.desc[i] = Clear(@)], file, i + 1)

\* the scan starts at the second frame
flushFileSkipFirst(s, file) == flushFileLoop(s, file, 1)

flushFile(s, file) == flushFileLoop(s, file, 0)

allocPage(s, file, newPage) ==
    LET s1 == FileAllocatePage(s, file, newPage)
        pg == PageOf(s1, file, newPage)
        s2 == allocBuf(s1)
        s3 == [s2 EXCEPT !.pool[s2.fnum] = pg,
                         !.desc[s2.fnum] = Set(@, file, newPage)]
        s4 == HashInsert(s3, file, newPage, s3.fnum)
    IN  IF s1.exc # "none" THEN s1
        ELSE IF s2.exc # "none" THEN s2
        ELSE IF s4.exc # "none" THEN s4
        ELSE [s4 EXCEPT !.ret = s4.fnum]

RECURSIVE disposePageLoop(_, _, _, _)
disposePageLoop(s, file, PageNo, i) ==
    IF i = NumBufs THEN FileDeletePage(s, file, PageNo)
    ELSE IF s.desc[i].file = file /\ s.desc[i].pageNo = PageNo
    THEN IF Pinned(s.desc[i]) THEN Throw(s, "PagePinned")
         ELSE LET s1 == [s EXCEPT !.desc[i] = Clear(@), !.hit = TRUE]
                  s2 == HashRemove(s1, file, PageNo)
              IN  IF s2.exc # "none" THEN s2
                  ELSE disposePageLoop(s2, file, PageNo, i + 1)
    ELSE disposePageLoop(s, file, PageNo, i + 1)

disposePage(s, file, PageNo) == disposePageLoop(s, file, PageNo, 0)

\* BufMgr::~BufMgr: flush the file of every dirty frame
RECURSIVE destructorLoop(_, _)
destructorLoop(s, i) ==
    IF i = NumBufs THEN s
    ELSE IF s.desc[i].dirty
    THEN LET s1 == flushFile(s, s.desc[i].file)
         IN  IF s1.exc # "none" THEN s1 ELSE destructorLoop(s1, i + 1)
    ELSE destructorLoop(s, i + 1)

destructor(s) == destructorLoop(s, 0)

\* ---- state machine --------------------------------------------------------
NoRT == [file |-> NoFile, pageNo |-> 0, v |-> 0]

NoCall == [op |-> "init", file |-> NoFile, pageNo |-> 0, dirty |-> FALSE,
           exc |-> "none", hit |-> FALSE, ret |-> NoFrame, log |-> <<>>,
           ticks |-> 0]

\* BufMgr::BufMgr(bufs); every file holds blank pages 0..MaxPage-1
Init ==
    /\ bufDescTable = [f \in Frames |->
                         [valid |-> FALSE, file |-> NoFile, pageNo |-> 0,
                          pinCnt |-> 0, dirty |-> FALSE, refbit |-> FALSE]]
    /\ bufPool = [f \in Frames |-> [pageNo |-> 0, data |-> 0]]
    /\ hashTable = [k \in Keys |-> NotFound]
    /\ clockHand = NumBufs - 1
    /\ frameNum = 0
    /\ disk = [file \in Files |->
                 [n \in PageIds |-> IF n < MaxPage THEN 0 ELSE Absent]]
    /\ alive = TRUE
    /\ lastCall = NoCall
    /\ ioErrSeen = FALSE
    /\ rt = NoRT
    /\ calls = 0
    /\ pins = [k \in Keys |-> 0]
    /\ script = 0

\* the handler's view of the state on entry
Start(faultAt) ==
    [desc |-> bufDescTable, pool |-> bufPool, ht |-> hashTable,
     hand |-> clockHand, fnum |-> frameNum, disk |-> disk,
     log |-> <<>>, exc |-> "none", ticks |-> 0, faultAt |-> faultAt,
     ret |-> NoFrame, hit |-> FALSE]

\* pins[k]: the readPage and allocPage calls that returned page k since it
\* became resident, less the unPinPage calls on it that succeeded
PinsStep(op, file, pageNo, s) ==
    [k \in Keys |->
        IF s.ht[k] = NotFound THEN 0
        ELSE IF k # <<file, pageNo>> \/ s.exc # "none" THEN pins[k]
        ELSE IF op \in {"readPage", "allocPage"}
        THEN IF hashTable[k] = NotFound THEN 1 ELSE pins[k] + 1
        ELSE IF op = "unPinPage" /\ s.hit THEN pins[k] - 1
        ELSE pins[k]]

\* script: how far the calls made so far follow the second-chance scenario
\* on a fresh pool: a page is read into each frame in order and unpinned
\* clean, the page of frame 0 is read again and unpinned clean, and a page
\* that is not resident is read; -1 once the calls have left the scenario
ScriptStep(op, dirty, s) ==
    IF script < 0 \/ s.exc # "none" THEN 0 - 1
    ELSE IF script < 2 * NumBufs /\ script % 2 = 0
    THEN IF op = "readPage" /\ ~s.hit /\ s.ret = script \div 2
         THEN script + 1 ELSE 0 - 1
    ELSE IF script < 2 * NumBufs
    THEN IF op = "unPinPage" /\ ~dirty /\ s.hit /\ s.fnum = script \div 2
         THEN script + 1 ELSE 0 - 1
    ELSE IF script = 2 * NumBufs
    THEN IF op = "readPage" /\ s.hit /\ s.ret = 0
         THEN script + 1 ELSE 0 - 1
    ELSE IF script = 2 * NumBufs + 1
    THEN IF op = "unPinPage" /\ ~dirty /\ s.hit /\ s.fnum = 0
         THEN script + 1 ELSE 0 - 1
    ELSE IF script = 2 * NumBufs + 2
    THEN IF op = "readPage" /\ ~s.hit THEN script + 1 ELSE 0 - 1
    ELSE 0 - 1

\* the state the handler leaves behind, and the record of the call
Commit(op, file, pageNo, dirty, s, bound) ==
    /\ bufDescTable' = s.desc
    /\ bufPool' = s.pool
    /\ hashTable' = s.ht
    /\ clockHand' = s.hand
    /\ frameNum' = s.fnum
    /\ disk' = s.disk
    /\ lastCall' = [op |-> op, file |-> file, pageNo |-> pageNo,
                    dirty |-> dirty, exc |-> s.exc, hit |-> s.hit,
                    ret |-> s.ret, log |-> s.log, ticks |-> s.ticks]
    /\ ioErrSeen' = (ioErrSeen \/ s.exc = "IOError")
    /\ calls < bound
    /\ calls' = calls + 1
    /\ pins' = PinsStep(op, file, pageNo, s)
    /\ script' = ScriptStep(op, dirty, s)

IsRT(file, pageNo) == rt.file = file /\ rt.pageNo = pageNo

DoReadPage(faults, bound) ==
    \E file \in Files, pageNo \in PageIds, faultAt \in faults :
        /\ alive
        /\ hashTable[<<file, pageNo>>] # NotFound
              => bufDescTable[hashTable[<<file, pageNo>>]].pinCnt < MaxPin
        /\ Commit("readPage", file, pageNo, FALSE,
                  readPage(Start(faultAt), file, pageNo), bound)
        /\ UNCHANGED <<alive, rt>>

DoUnPinPage(bound, track) ==
    \E file \in Files, pageNo \in PageIds, dirty \in BOOLEAN :
        LET s == unPinPage(Start(0), file, pageNo, dirty)
        IN  /\ alive
            /\ Commit("unPinPage", file, pageNo, dirty, s, bound)
            /\ rt' = IF track /\ dirty /\ s.hit /\ s.exc = "none"
                     THEN [file |-> file, pageNo |-> pageNo,
                           v |-> bufPool[s.fnum].data]
                     ELSE rt
            /\ UNCHANGED alive

\* a client holding a pin on a page modifies the payload it was handed
DoClientWrite(bound, track) ==
    \E k \in Keys, v \in Values :
        LET f == hashTable[k]
        IN  /\ alive
            /\ f # NotFound
            /\ bufDescTable[f].pinCnt > 0
            /\ bufPool[f].data # v
            /\ calls < bound
            /\ calls' = calls + 1
            /\ bufPool' = [bufPool EXCEPT ![f].data = v]
            /\ lastCall' = [NoCall EXCEPT !.op = "clientWrite",
                               !.file = k[1], !.pageNo = k[2], !.ret = f]
            /\ rt' = IF track /\ IsRT(k[1], k[2]) THEN NoRT ELSE rt
            /\ script' = 0 - 1
            /\ UNCHANGED <<bufDescTable, hashTable, clockHand, frameNum,
                           disk, alive, ioErrSeen, pins>>

ReadPage == DoReadPage(0 .. MaxFault, MaxCalls)

UnPinPage == DoUnPinPage(MaxCalls, FALSE)

ClientWrite == DoClientWrite(MaxCalls, FALSE)

AllocPage ==
    \E file \in Files, newPage \in PageIds, faultAt \in 0 .. MaxFault :
        /\ alive
        /\ disk[file][newPage] = Absent
        /\ Commit("allocPage", file, newPage, FALSE,
                  allocPage(Start(faultAt), file, newPage), MaxCalls)
        /\ UNCHANGED <<alive, rt>>

DisposePage ==
    \E file \in Files, pageNo \in PageIds, faultAt \in 0 .. MaxFault :
        /\ alive
        /\ Commit("disposePage", file, pageNo, FALSE,
                  disposePage(Start(faultAt), file, pageNo), MaxCalls)
        /\ UNCHANGED <<alive, rt>>

FlushFile ==
    \E file \in Files, faultAt \in 0 .. MaxFault :
        /\ alive
        /\ Commit("flushFile", file, 0, FALSE,
                  flushFile(Start(faultAt), file), MaxCalls)
        /\ UNCHANGED <<alive, rt>>

Teardown ==
    \E faultAt \in 0 .. MaxFault :
        /\ alive
        /\ Commit("teardown", NoFile, 0, FALSE,
                  destructor(Start(faultAt)), MaxCalls)
        /\ alive' = FALSE
        /\ UNCHANGED rt

Next ==
    \/ ReadPage
    \/ UnPinPage
    \/ AllocPage
    \/ DisposePage
    \/ FlushFile
    \/ Teardown
    \/ ClientWrite

Spec == Init /\ [][Next]_vars

\* a client that only reads, modifies and unpins pages, on a reliable file
\* layer; rt remembers the value it last released with dirty = true
ClientReadPage == DoReadPage({0}, MaxClientCalls)

ClientUnPinPage == DoUnPinPage(MaxClientCalls, TRUE)

ClientModify == DoClientWrite(MaxClientCalls, TRUE)

NextClient ==
    \/ ClientReadPage
    \/ ClientUnPinPage
    \/ ClientModify

SpecClient == Init /\ [][NextClient]_vars

TypeOK ==
    /\ clockHand \in Frames
    /\ frameNum \in Frames
    /\ \A f \in Frames : bufDescTable[f].pinCnt \in 0 .. MaxPin

\* ---- properties -----------------------------------------------------------
Entries(f) == {k \in Keys : hashTable[k] = f}

Resident(k) == hashTable[k] # NotFound

PublicCall(op) ==
    op \in {"readPage", "unPinPage", "allocPage", "disposePage", "flushFile"}

\* C1: after every public call of a run in which the file layer raised no
\* I/O error, a frame is valid iff exactly one directory entry maps to it,
\* and there are as many valid frames as directory entries.
DirectoryMatchesFrames ==
    (PublicCall(lastCall.op) /\ ~ioErrSeen) =>
        /\ \A f \in Frames :
              bufDescTable[f].valid <=> Cardinality(Entries(f)) = 1
        /\ Cardinality({f \in Frames : bufDescTable[f].valid})
              = Cardinality({k \in Keys : Resident(k)})

\* C2: a resident page with pinCnt > 0 keeps its directory entry, its frame
\* and its payload across every call (a client may modify the payload data).
PinnedStaysResident ==
    [][\A k \in Keys :
          (Resident(k) /\ bufDescTable[hashTable[k]].pinCnt > 0) =>
             LET f == hashTable[k]
             IN  /\ hashTable'[k] = f
                 /\ bufDescTable'[f].valid
                 /\ bufDescTable'[f].file = bufDescTable[f].file
                 /\ bufDescTable'[f].pageNo = bufDescTable[f].pageNo
                 /\ bufPool'[f].pageNo = bufPool[f].pageNo
                 /\ (lastCall'.op # "clientWrite"
                        => bufPool'[f] = bufPool[f])]_vars

\* a readPage miss took its frame after the hand had swept the whole pool,
\* passing a frame that holds a pinned resident page
PinnedSkippedByClock ==
    /\ lastCall.op = "readPage"
    /\ ~lastCall.hit
    /\ lastCall.exc = "none"
    /\ lastCall.ticks >= NumBufs
    /\ \E k \in Keys :
          /\ Resident(k)
          /\ hashTable[k] # lastCall.ret
          /\ bufDescTable[hashTable[k]].pinCnt > 0

\* C3: on a readPage(file, pageNo) miss the payload returned is page pageNo
\* of file, as the file holds it.
MissLoadsRequestedPage ==
    (lastCall.op = "readPage" /\ ~lastCall.hit /\ lastCall.exc = "none") =>
        bufPool[lastCall.ret] =
            [pageNo |-> lastCall.pageNo,
             data |-> disk[lastCall.file][lastCall.pageNo]]

LastLog == lastCall.log[Len(lastCall.log)]

\* C4: when the file's readPage fails during a readPage miss, the frame
\* obtained from allocBuf is left invalid with pinCnt 0, and the directory has
\* no entry for the page nor any entry pointing to that frame.
FailedReadLeavesFrameInvalid ==
    (/\ lastCall.op = "readPage"
     /\ ~lastCall.hit
     /\ lastCall.exc = "IOError"
     /\ LastLog.call = "readPage") =>
        /\ ~bufDescTable[frameNum].valid
        /\ bufDescTable[frameNum].pinCnt = 0
        /\ ~Resident(<<lastCall.file, lastCall.pageNo>>)
        /\ Entries(frameNum) = {}

\* C5: allocBuf fails with BufferExceeded only when every frame is pinned.
ExceededOnlyWhenAllPinned ==
    [][lastCall'.exc = "BufferExceeded" =>
          \A f \in Frames : bufDescTable[f].pinCnt > 0]_vars

AllPinned == \A f \in Frames :
                bufDescTable[f].valid /\ bufDescTable[f].pinCnt > 0

\* C6: with every frame valid and pinned, a readPage miss or an allocPage
\* fails with BufferExceeded (unless allocatePage itself failed) and leaves
\* the frame table and the directory as they were.
AllPinnedEvictsNothing ==
    [][(/\ AllPinned
        /\ lastCall'.op \in {"readPage", "allocPage"}
        /\ ~lastCall'.hit) =>
          /\ \/ lastCall'.exc = "BufferExceeded"
             \/ lastCall'.op = "allocPage" /\ lastCall'.exc = "IOError"
          /\ bufDescTable' = bufDescTable
          /\ hashTable' = hashTable]_vars

\* a readPage miss was refused on a pool whose frames all hold pinned
\* resident pages with the reference bit set
AllPinnedRefused ==
    /\ lastCall.op = "readPage"
    /\ lastCall.exc = "BufferExceeded"
    /\ lastCall.ticks = NumBufs
    /\ AllPinned
    /\ \A f \in Frames : bufDescTable[f].refbit /\ Entries(f) # {}

WritesOf(log, file, pageNo) ==
    {i \in 1 .. Len(log) : /\ log[i].call = "writePage"
                           /\ log[i].file = file
                           /\ log[i].pageNo = pageNo}

\* C7 (for frames freed by an allocBuf eviction or by flushFile): when a
\* frame holding (file1, p1) with dirty = true stops holding that page,
\* exactly one file1.writePage call for p1 was made.
WriteBackBeforeReuse ==
    [][\A f \in Frames :
          (/\ bufDescTable[f].valid
           /\ bufDescTable[f].dirty
           /\ lastCall'.op \in {"readPage", "allocPage", "flushFile"}
           /\ \/ ~bufDescTable'[f].valid
              \/ bufDescTable'[f].file # bufDescTable[f].file
              \/ bufDescTable'[f].pageNo # bufDescTable[f].pageNo) =>
             Cardinality(WritesOf(lastCall'.log, bufDescTable[f].file,
                                  bufDescTable[f].pageNo)) = 1]_vars

\* C8: a page released with value v and dirty = true, then evicted by other
\* reads, is read back with value v.
RoundTrip ==
    (/\ lastCall.op = "readPage"
     /\ ~lastCall.hit
     /\ lastCall.exc = "none"
     /\ IsRT(lastCall.file, lastCall.pageNo)) =>
        bufPool[lastCall.ret].data = rt.v

FrameWrites(log, f) ==
    {i \in 1 .. Len(log) : log[i].call = "writePage" /\ log[i].frame = f}

\* C9: a flushFile that fails with PagePinned has made no writePage call for
\* a pinned frame of the file and has not cleared its dirty bit.
FlushSparesPinned ==
    [][(lastCall'.op = "flushFile" /\ lastCall'.exc = "PagePinned") =>
          \A f \in Frames :
             (/\ bufDescTable[f].file = lastCall'.file
              /\ bufDescTable[f].pinCnt > 0) =>
                /\ FrameWrites(lastCall'.log, f) = {}
                /\ bufDescTable'[f].dirty = bufDescTable[f].dirty]_vars

\* C10: teardown on a reliable file layer raises no error and writes the
\* payload of every dirty frame to its file, pinned frames or not.
TeardownFlushesAllDirty ==
    [][(lastCall'.op = "teardown" /\ lastCall'.exc # "IOError") =>
          /\ lastCall'.exc = "none"
          /\ \A f \in Frames :
                bufDescTable[f].dirty =>
                   \E i \in FrameWrites(lastCall'.log, f) :
                      /\ lastCall'.log[i].ok
                      /\ lastCall'.log[i].file = bufDescTable[f].file]_vars

KeyOf(f) == <<bufDescTable[f].file, bufDescTable[f].pageNo>>

\* the six calls that set up the scenario of C11 have been made: with two
\* frames, frame 0 holds p0 and frame 1 holds p1, both unpinned
SecondChanceReady == script = 2 * NumBufs + 2

MissOnReady ==
    /\ SecondChanceReady
    /\ lastCall'.op = "readPage"
    /\ ~lastCall'.hit
    /\ lastCall'.exc = "none"

\* C11 as stated: the readPage(F, p2) that follows keeps p0 and evicts p1,
\* so that p0 and p2 are resident.
SecondChanceEvictsP1 ==
    [][MissOnReady =>
          /\ hashTable'[KeyOf(0)] = 0
          /\ hashTable'[KeyOf(1)] = NotFound
          /\ lastCall'.ret = 1]_vars

\* C11 amended: the readPage(F, p2) that follows clears the reference bit of
\* every frame (p1's is set too, by Set when it was loaded) and then evicts
\* p0 from frame 0, so that p1 and p2 are resident.
SecondChanceEvictsP0 ==
    [][MissOnReady =>
          /\ lastCall'.ret = 0
          /\ lastCall'.ticks = NumBufs + 1
          /\ hashTable'[KeyOf(0)] = NotFound
          /\ hashTable'[<<lastCall'.file, lastCall'.pageNo>>] = 0
          /\ \A f \in Frames \ {0} :
                /\ hashTable'[KeyOf(f)] = f
                /\ bufDescTable'[f] =
                      [bufDescTable[f] EXCEPT !.refbit = FALSE]]_vars

\* the scenario of C11 has run to its last call
SecondChanceDone ==
    /\ script = 2 * NumBufs + 3
    /\ lastCall.op = "readPage"
    /\ ~lastCall.hit
    /\ lastCall.exc = "none"
    /\ lastCall.ret = 0
    /\ lastCall.ticks = NumBufs + 1
    /\ \A f \in Frames \ {0} :
          /\ bufDescTable[f].valid
          /\ ~bufDescTable[f].refbit
          /\ bufDescTable[f].pinCnt = 0
          /\ Entries(f) = {KeyOf(f)}

\* C12: pinCnt is never negative, and unPinPage on a resident page whose
\* pinCnt is 0 fails with PageNotPinned leaving the frame's pinCnt and dirty
\* as they were, whatever its dirty argument.
UnpinAtZeroRefused ==
    [][/\ \A f \in Frames : bufDescTable'[f].pinCnt >= 0
       /\ \A k \in Keys :
             (/\ lastCall'.op = "unPinPage"
              /\ k = <<lastCall'.file, lastCall'.pageNo>>
              /\ Resident(k)
              /\ bufDescTable[hashTable[k]].pinCnt = 0) =>
                /\ lastCall'.exc = "PageNotPinned"
                /\ bufDescTable'[hashTable[k]].pinCnt = 0
                /\ bufDescTable'[hashTable[k]].dirty
                      = bufDescTable[hashTable[k]].dirty]_vars

\* an unPinPage with dirty = true was refused on a clean unpinned page
UnpinAtZeroSeen ==
    /\ lastCall.op = "unPinPage"
    /\ lastCall.exc = "PageNotPinned"
    /\ lastCall.dirty
    /\ hashTable[<<lastCall.file, lastCall.pageNo>>] = frameNum
    /\ bufDescTable[frameNum].pinCnt = 0
    /\ ~bufDescTable[frameNum].dirty

\* C13: the dirty bit of a frame stays set for as long as the frame holds the
\* same page and no call has written the page back (eviction or flush);
\* unPinPage with dirty = false and a readPage hit do not clear it.
DirtyStaysSet ==
    [][\A f \in Frames :
          (/\ bufDescTable[f].valid
           /\ bufDescTable[f].dirty
           /\ bufDescTable'[f].valid
           /\ bufDescTable'[f].file = bufDescTable[f].file
           /\ bufDescTable'[f].pageNo = bufDescTable[f].pageNo
           /\ \A i \in FrameWrites(lastCall'.log, f) : ~lastCall'.log[i].ok) =>
             bufDescTable'[f].dirty]_vars

\* an unPinPage with dirty = false succeeded on a page that is dirty
CleanUnpinOfDirtyPage ==
    /\ lastCall.op = "unPinPage"
    /\ ~lastCall.dirty
    /\ lastCall.hit
    /\ lastCall.exc = "none"
    /\ hashTable[<<lastCall.file, lastCall.pageNo>>] = frameNum
    /\ bufDescTable[frameNum].dirty

\* C17: unPinPage on a page that is not resident raises no error and changes
\* neither the frame table, the payloads, the directory nor the clock hand.
UnpinNonResidentNoOp ==
    [][(/\ lastCall'.op = "unPinPage"
        /\ ~Resident(<<lastCall'.file, lastCall'.pageNo>>)) =>
          /\ lastCall'.exc = "none"
          /\ bufDescTable' = bufDescTable
          /\ bufPool' = bufPool
          /\ hashTable' = hashTable
          /\ clockHand' = clockHand]_vars

\* an unPinPage with dirty = true was made on a page that is not resident
\* while the frame last used holds a pinned clean page
UnpinNonResidentSeen ==
    /\ lastCall.op = "unPinPage"
    /\ lastCall.dirty
    /\ ~lastCall.hit
    /\ lastCall.exc = "none"
    /\ bufDescTable[frameNum].valid
    /\ bufDescTable[frameNum].pinCnt > 0
    /\ ~bufDescTable[frameNum].dirty

\* positions of the file.deletePage(pageNo) calls in a call's log
DeletesOf(log, file, pageNo) ==
    {i \in 1 .. Len(log) : /\ log[i].call = "deletePage"
                           /\ log[i].file = file
                           /\ log[i].pageNo = pageNo}

\* C14: disposePage(file, pageNo) fails with PagePinned exactly when the page
\* is resident with pinCnt > 0, and then the frame table, the directory and
\* the file are unchanged and file.deletePage is not called; in every other
\* case the page is not resident afterwards and file.deletePage(pageNo) has
\* been called exactly once.
DisposeContract ==
    [][\A k \in Keys :
          (/\ lastCall'.op = "disposePage"
           /\ k = <<lastCall'.file, lastCall'.pageNo>>) =>
             LET pinned == /\ Resident(k)
                           /\ bufDescTable[hashTable[k]].pinCnt > 0
                 deletes == DeletesOf(lastCall'.log, k[1], k[2])
             IN  /\ (lastCall'.exc = "PagePinned") <=> pinned
                 /\ pinned => /\ bufDescTable' = bufDescTable
                              /\ hashTable' = hashTable
                              /\ disk' = disk
                              /\ lastCall'.log = <<>>
                 /\ ~pinned => /\ hashTable'[k] = NotFound
                               /\ Cardinality(deletes) = 1]_vars

\* C15: after flushFile(file) has returned normally no frame holds a page of
\* file and the directory has no entry for file, and a second flushFile(file)
\* made at once returns normally without a single file.writePage call.
FlushLeavesNothing ==
    (lastCall.op = "flushFile" /\ lastCall.exc = "none") =>
        /\ \A f \in Frames : bufDescTable[f].file # lastCall.file
        /\ \A k \in Keys : k[1] = lastCall.file => hashTable[k] = NotFound
        /\ LET again == flushFile(Start(0), lastCall.file)
           IN  /\ again.exc = "none"
               /\ again.log = <<>>
               /\ again.desc = bufDescTable
               /\ again.ht = hashTable

\* a flushFile returned normally after writing a dirty page back
FlushWroteAndReturned ==
    /\ lastCall.op = "flushFile"
    /\ lastCall.exc = "none"
    /\ \E i \in 1 .. Len(lastCall.log) :
          lastCall.log[i].call = "writePage" /\ lastCall.log[i].ok

\* C16: the pinCnt of a resident page equals the readPage and allocPage calls
\* that returned it since it became resident less the unPinPage calls on it
\* that succeeded; and readPage(file, p) followed by unPinPage(file, p, false)
\* on a resident page p brings the frame's pinCnt back to what it was and
\* leaves its dirty bit as it was.
PinUnpinBalance ==
    \A k \in Keys :
        Resident(k) =>
            LET f == hashTable[k]
                s1 == readPage(Start(0), k[1], k[2])
                s2 == unPinPage(s1, k[1], k[2], FALSE)
            IN  /\ bufDescTable[f].pinCnt = pins[k]
                /\ s1.exc = "none" /\ s1.ret = f
                /\ s1.desc[f].pinCnt = bufDescTable[f].pinCnt + 1
                /\ s2.exc = "none"
                /\ s2.desc[f].pinCnt = bufDescTable[f].pinCnt
                /\ s2.desc[f].dirty = bufDescTable[f].dirty
                /\ s1.desc[f].dirty = bufDescTable[f].dirty

\* a page that was pinned twice and is dirty has been read again and then
\* unpinned with dirty = false, and is still pinned
BalancedAfterCleanUnpin ==
    /\ lastCall.op = "unPinPage"
    /\ ~lastCall.dirty
    /\ lastCall.hit
    /\ lastCall.exc = "none"
    /\ hashTable[<<lastCall.file, lastCall.pageNo>>] = frameNum
    /\ bufDescTable[frameNum].dirty
    /\ bufDescTable[frameNum].pinCnt = 1
    /\ pins[<<lastCall.file, lastCall.pageNo>>] = 1

\* C18: a readPage hit on frame f sets refbit[f], adds one to pinCnt[f] and
\* returns f; it makes no file-layer call, does not move the clock hand, and
\* leaves the directory, the payloads, the file, dirty[f] and every other
\* frame unchanged.
HitTouchesOnlyRefbitAndPin ==
    [][\A k \in Keys :
          (/\ lastCall'.op = "readPage"
           /\ k = <<lastCall'.file, lastCall'.pageNo>>
           /\ Resident(k)) =>
             LET f == hashTable[k]
             IN  /\ lastCall'.exc = "none"
                 /\ lastCall'.ret = f
                 /\ lastCall'.log = <<>>
                 /\ lastCall'.ticks = 0
                 /\ bufDescTable' = [bufDescTable EXCEPT
                                        ![f].refbit = TRUE,
                                        ![f].pinCnt = @ + 1]
                 /\ clockHand' = clockHand
                 /\ hashTable' = hashTable
                 /\ bufPool' = bufPool
                 /\ disk' = disk]_vars

\* a readPage hit was served from a dirty frame while another frame also
\* holds a page
HitOnDirtyFrame ==
    /\ lastCall.op = "readPage"
    /\ lastCall.hit
    /\ lastCall.ret \in Frames
    /\ bufDescTable[lastCall.ret].dirty
    /\ bufDescTable[lastCall.ret].pinCnt = 1
    /\ \E g \in Frames \ {lastCall.ret} : Entries(g) # {}

\* C19: every public call ends, and the allocBuf it makes advances the clock
\* hand at most 2 * numBufs times, whether it returns a frame or raises
\* BufferExceeded.
AllocBufBounded == lastCall.ticks <= 2 * NumBufs

\* an allocBuf went into a second sweep of the pool
SecondSweepSeen ==
    /\ lastCall.op \in {"readPage", "allocPage"}
    /\ lastCall.ticks > NumBufs

\* C20: when a readPage or allocPage fails with an I/O error in the
\* write-back of a dirty victim in frame f, frame f is still valid, still
\* dirty, holds the same page with the same payload, and the directory still
\* maps that page to f.
FailedWriteBackKeepsVictim ==
    [][\A f \in Frames :
          (/\ lastCall'.op \in {"readPage", "allocPage"}
           /\ lastCall'.exc = "IOError"
           /\ lastCall'.log # <<>>
           /\ LET e == lastCall'.log[Len(lastCall'.log)]
              IN  e.call = "writePage" /\ ~e.ok /\ e.frame = f) =>
             /\ bufDescTable[f].valid /\ bufDescTable[f].dirty
             /\ bufDescTable'[f] = [bufDescTable[f] EXCEPT !.refbit = FALSE]
             /\ hashTable[KeyOf(f)] = f
             /\ hashTable' = hashTable
             /\ bufPool' = bufPool
             /\ disk' = IF lastCall'.op = "allocPage"
                        THEN [disk EXCEPT ![lastCall'.file][lastCall'.pageNo]
                                             = 0]
                        ELSE disk]_vars

\* the write-back of a dirty victim failed and the victim is still in place
FailedWriteBackSeen ==
    /\ lastCall.op \in {"readPage", "allocPage"}
    /\ lastCall.exc = "IOError"
    /\ lastCall.log # <<>>
    /\ LET e == lastCall.log[Len(lastCall.log)]
       IN  /\ e.call = "writePage" /\ ~e.ok /\ e.frame \in Frames
           /\ bufDescTable[e.frame].valid
           /\ bufDescTable[e.frame].dirty
           /\ hashTable[KeyOf(e.frame)] = e.frame
====
